---- MODULE Spec2Model ----
(***************************************************************************)
(* Job lifecycle core of src/main.py: JobManager (registry, create_job,    *)
(* cancel_job), the runner coroutine JobManager._run_job, WebAgent.setup / *)
(* WebAgent.run_steps, and the 'exit' path of cli_loop.                    *)
(*                                                                         *)
(* Everything runs on one asyncio event loop.  A coroutine keeps the loop  *)
(* thread from the moment it is resumed until its next suspending await   *)
(* (the only one in the runner is `await self.runner.run_debug(...)` at    *)
(* main.py:126) or until it finishes.  The variable `cur` is the job whose *)
(* runner holds the loop thread (0: none); the manager's operations are    *)
(* called from another coroutine of the same loop, hence only when         *)
(* cur = 0.  A resumption of the runner is taken in several steps, so the  *)
(* order of its status writes and log writes is visible in the model.      *)
(*                                                                         *)
(* Job.created_at (a wall-clock string) is not modelled; the timestamp     *)
(* that WebAgent.log puts in front of a message is modelled by the ts      *)
(* field of a log entry.                                                   *)
(***************************************************************************)
EXTENDS Integers, Sequences, FiniteSets, TLC

\* ---- bounds ----
MaxJobs == 2        \* create_job calls in one run
MaxSteps == 3       \* length of the longest step list handed to create_job
NumIds == 2         \* size of the id space drawn from by uuid4()[:8]

\* ---- input alphabets ----
Ids == 1..NumIds
\* the workflow "demo_insurance" of WorkflowManager
Names == {"demo_insurance"}
Workflow == <<"navigate to 'https://www.royalsundaram.in/MOPIS/Login.jsp'",
              "Enter username 'invictus' and password 'Secret123', click sign in",
              "Click 'Rating Calculator' -> 'New Business' -> 'Private Car'",
              "Enter vehicle MH 02 FR 1294 and click get started",
              "download the generated pdf">>
\* what run_debug returns for a step: a response of its own for each step
Reply == <<"response 1", "response 2", "response 3", "response 4", "response 5">>
Responses(step) == {Reply[CHOOSE k \in 1..Len(Workflow) : Workflow[k] = step]}
SetupCauses == {"init"}
StepCauses == {"timeout"}

\* the step lists handed to create_job: none, or the first MaxSteps steps
StepLists == {<<>>, SubSeq(Workflow, 1, MaxSteps)}

VARIABLES
    jobs,       \* JobManager.jobs: insertion-ordered dict, a sequence of [key, val]
    heap,       \* the Job objects ever constructed; a job is named by its index
    tasks,      \* per job: the asyncio.Task running _run_job(job, steps), with its WebAgent
    cur,        \* the job whose runner holds the event-loop thread, 0 if none
    phase,      \* "serving" | "exited" (cli_loop left its loop) | "closing" (asyncio.run cancelled what was left)
    call,       \* the manager call made by the last step, with what it returned
    cancel_at,  \* per job: Job.status when task.cancel() was first called on it, "" if never
    executor,   \* per job: the calls made to the executor so far, with their outcomes
    again,      \* history, kept when .on: the jobs (.of) for which cancel_job returned
                \* True while an earlier cancellation of theirs was still pending
    exit_running \* the jobs whose status was RUNNING when 'exit' was typed

vars == <<jobs, heap, tasks, cur, phase, call, cancel_at, executor, again, exit_running>>

Terminal == {"COMPLETED", "FAILED", "CANCELLED"}
Statuses == {"PENDING", "RUNNING"} \cup Terminal

\* ---- data structures ----

\* dataclass Job: status defaults to "PENDING", logs to []
Job(id, name) == [id |-> id, name |-> name, status |-> "PENDING", logs |-> <<>>]

\* a message before formatting
Msg(kind, idx, text) == [kind |-> kind, idx |-> idx, text |-> text, ts |-> FALSE]

\* DictGet, were a missing key to fall back on the value inserted last
DictGet_FallsBack(d, k) ==
    IF \E n \in 1..Len(d) : d[n].key = k
    THEN d[CHOOSE n \in 1..Len(d) : d[n].key = k].val
    ELSE IF d # <<>> THEN d[Len(d)].val ELSE 0

\* dict.get(key): the value stored under key, 0 (None) if there is none
DictGet(d, k) ==
    IF \E n \in 1..Len(d) : d[n].key = k
    THEN d[CHOOSE n \in 1..Len(d) : d[n].key = k].val
    ELSE 0

\* d[key] = val: replaces the value of an existing key in place, else appends
DictSet(d, k, v) ==
    IF \E n \in 1..Len(d) : d[n].key = k
    THEN [n \in 1..Len(d) |-> IF d[n].key = k THEN [key |-> k, val |-> v] ELSE d[n]]
    ELSE Append(d, [key |-> k, val |-> v])

\* JobManager.list_jobs: self.jobs.values()
list_jobs == [n \in 1..Len(jobs) |-> jobs[n].val]

\* JobManager.get_job
get_job(job_id) == DictGet(jobs, job_id)

\* Task.done()
done(t) == t.pc \in {"returned", "cancelled"}

\* job_logger, were the list of logs one shared by all jobs (a class
\* attribute in place of field(default_factory=list))
job_logger_Shared(h, r, msg) == [q \in 1..Len(h) |-> [h[q] EXCEPT !.logs = Append(@, msg)]]

\* job_logger, were it to put the message in front (logs.insert(0, msg))
job_logger_Prepend(h, r, msg) == [h EXCEPT ![r].logs = <<msg>> \o @]

\* job_logger(msg): job.logs.append(msg)
job_logger(h, r, msg) == [h EXCEPT ![r].logs = Append(@, msg)]

\* line 78: "[HH:MM:SS] " goes in front of the message
Format(message) == [message EXCEPT !.ts = TRUE]

\* WebAgent.log: the formatted message is handed to log_callback
log(h, r, message) == job_logger(h, r, Format(message))

NoCall == [op |-> "none", id |-> 0, ok |-> FALSE]

\* Task.cancel(): nothing on a task that is done; otherwise a CancelledError
\* is thrown into the coroutine when the loop next steps the task
cancel(t) == IF done(t) THEN t ELSE [t EXCEPT !.must_cancel = TRUE]

NoteCancel(ca, r) == IF ca[r] = "" THEN [ca EXCEPT ![r] = heap[r].status] ELSE ca

NoteAgain(r) ==
    IF again.on /\ tasks[r].must_cancel THEN [again EXCEPT !.of = @ \cup {r}] ELSE again

\* JobManager.__init__ (lines 136-137); no task exists, the CLI is serving
Construct ==
    /\ jobs = <<>>
    /\ heap = <<>>
    /\ tasks = <<>>
    /\ cur = 0
    /\ phase = "serving"
    /\ call = NoCall
    /\ cancel_at = <<>>
    /\ executor = <<>>
    /\ exit_running = {}

Init == Construct /\ again = [on |-> FALSE, of |-> {}]

\* the same program, with the history of repeated cancellations kept
InitAgain == Construct /\ again = [on |-> TRUE, of |-> {}]

\* ---- JobManager ----

create_job(job_id, name, steps) ==
    /\ cur = 0
    /\ phase = "serving"
    /\ Len(heap) < MaxJobs
    /\ LET r == Len(heap) + 1 IN
        /\ heap' = Append(heap, Job(job_id, name))
        /\ jobs' = DictSet(jobs, job_id, r)
        /\ tasks' = Append(tasks, [pc |-> "created", must_cancel |-> FALSE, steps |-> steps,
                                   i |-> 0, agent |-> FALSE, e |-> "", response |-> ""])
        /\ cancel_at' = Append(cancel_at, "")
        /\ executor' = Append(executor, <<>>)
    /\ call' = [op |-> "create_job", id |-> job_id, ok |-> TRUE]
    /\ UNCHANGED <<cur, phase, exit_running, again>>

\* cancel_job without the `not job.task.done()` test
cancel_job_NoDoneTest(job_id) ==
    /\ cur = 0
    /\ phase = "serving"
    /\ LET r == DictGet(jobs, job_id) IN
         IF r # 0
         THEN /\ tasks' = [tasks EXCEPT ![r] = cancel(@)]
              /\ cancel_at' = NoteCancel(cancel_at, r)
              /\ again' = NoteAgain(r)
              /\ call' = [op |-> "cancel_job", id |-> job_id, ok |-> TRUE]
         ELSE /\ call' = [op |-> "cancel_job", id |-> job_id, ok |-> FALSE]
              /\ UNCHANGED <<tasks, cancel_at, again>>
    /\ UNCHANGED <<jobs, heap, cur, phase, exit_running, executor>>

cancel_job(job_id) ==
    /\ cur = 0
    /\ phase = "serving"
    /\ LET r == DictGet(jobs, job_id) IN
         IF r # 0 /\ ~done(tasks[r])
         THEN /\ tasks' = [tasks EXCEPT ![r] = cancel(@)]
              /\ cancel_at' = NoteCancel(cancel_at, r)
              /\ again' = NoteAgain(r)
              /\ call' = [op |-> "cancel_job", id |-> job_id, ok |-> TRUE]
         ELSE /\ call' = [op |-> "cancel_job", id |-> job_id, ok |-> FALSE]
              /\ UNCHANGED <<tasks, cancel_at, again>>
    /\ UNCHANGED <<jobs, heap, cur, phase, exit_running, executor>>

\* ---- JobManager._run_job, WebAgent.setup, WebAgent.run_steps ----

\* the executor is called / its pending call ends
Record(r, entry) == [executor EXCEPT ![r] = Append(@, entry)]
Outcome(r, out, text) ==
    [executor EXCEPT ![r] = [@ EXCEPT ![Len(@)].out = out, ![Len(@)].res = text]]

\* Start, were the CancelledError of a task cancelled before its first step
\* to reach the handler of line 162
Start_HandlerRuns(r) ==
    /\ cur = 0
    /\ tasks[r].pc = "created"
    /\ IF tasks[r].must_cancel
       THEN /\ tasks' = [tasks EXCEPT ![r].pc = "except_cancelled", ![r].must_cancel = FALSE]
            /\ cur' = r
            /\ UNCHANGED heap
       ELSE /\ heap' = [heap EXCEPT ![r].status = "RUNNING"]
            /\ tasks' = [tasks EXCEPT ![r].pc = "setup"]
            /\ cur' = r
    /\ call' = NoCall
    /\ UNCHANGED <<jobs, phase, exit_running, cancel_at, again, executor>>

\* Start, without line 151: setup runs while the status is still PENDING
Start_NoRunning(r) ==
    /\ cur = 0
    /\ tasks[r].pc = "created"
    /\ IF tasks[r].must_cancel
       THEN /\ tasks' = [tasks EXCEPT ![r].pc = "cancelled", ![r].must_cancel = FALSE]
            /\ UNCHANGED <<heap, cur>>
       ELSE /\ tasks' = [tasks EXCEPT ![r].pc = "setup"]
            /\ cur' = r
            /\ UNCHANGED heap
    /\ call' = NoCall
    /\ UNCHANGED <<jobs, phase, exit_running, cancel_at, again, executor>>

\* the loop steps the task for the first time: a task cancelled before that
\* gets the CancelledError thrown into the unstarted coroutine, which ends it
\* without running any of its body; otherwise line 151 runs
Start(r) ==
    /\ cur = 0
    /\ tasks[r].pc = "created"
    /\ IF tasks[r].must_cancel
       THEN /\ tasks' = [tasks EXCEPT ![r].pc = "cancelled", ![r].must_cancel = FALSE]
            /\ UNCHANGED <<heap, cur>>
       ELSE /\ heap' = [heap EXCEPT ![r].status = "RUNNING"]
            /\ tasks' = [tasks EXCEPT ![r].pc = "setup"]
            /\ cur' = r
    /\ call' = NoCall
    /\ UNCHANGED <<jobs, phase, exit_running, cancel_at, again, executor>>

\* WebAgent.setup, no exception: it has no suspending await
SetupOk(r) ==
    /\ cur = r
    /\ tasks[r].pc \in {"setup", "setup_in_run_steps"}
    /\ heap' = log(log(heap, r, Msg("Initializing", 0, "")), r, Msg("SetupComplete", 0, ""))
    /\ tasks' = [tasks EXCEPT ![r].agent = TRUE, ![r].pc = "run_steps"]
    /\ executor' = Record(r, [op |-> "setup", idx |-> 0, text |-> "", out |-> "ok", res |-> ""])
    /\ UNCHANGED <<jobs, cur, phase, exit_running, call, cancel_at, again>>

\* SetupFails, were setup to swallow the exception and return
SetupFails_Swallowed(r, cause) ==
    /\ cur = r
    /\ tasks[r].pc \in {"setup", "setup_in_run_steps"}
    /\ heap' = log(heap, r, Msg("Initializing", 0, ""))
    /\ tasks' = [tasks EXCEPT ![r].e = cause, ![r].pc = "run_steps"]
    /\ executor' = Record(r, [op |-> "setup", idx |-> 0, text |-> "", out |-> "err", res |-> cause])
    /\ UNCHANGED <<jobs, cur, phase, exit_running, call, cancel_at, again>>

\* WebAgent.setup, one of the constructors of lines 84-112 raises
SetupFails(r, cause) ==
    /\ cur = r
    /\ tasks[r].pc \in {"setup", "setup_in_run_steps"}
    /\ heap' = log(heap, r, Msg("Initializing", 0, ""))
    /\ tasks' = [tasks EXCEPT ![r].e = cause, ![r].pc = "except_exception"]
    /\ executor' = Record(r, [op |-> "setup", idx |-> 0, text |-> "", out |-> "err", res |-> cause])
    /\ UNCHANGED <<jobs, cur, phase, exit_running, call, cancel_at, again>>

\* Iterate, were the steps numbered from 0 (enumerate(steps))
Iterate_FromZero(r, h, t, x, i) ==
    IF i <= Len(t.steps)
    THEN /\ heap' = log(h, r, Msg("Step", i - 1, t.steps[i]))
         /\ tasks' = [tasks EXCEPT ![r] = [t EXCEPT !.i = i, !.pc = "await"]]
         /\ executor' = [x EXCEPT ![r] = Append(@, [op |-> "step", idx |-> i,
                                    text |-> t.steps[i], out |-> "", res |-> ""])]
         /\ cur' = 0
    ELSE /\ heap' = log(h, r, Msg("Completed", 0, ""))
         /\ tasks' = [tasks EXCEPT ![r] = [t EXCEPT !.i = i, !.pc = "set_completed"]]
         /\ executor' = x
         /\ cur' = r

\* the for loop of run_steps entered at iteration i (lines 121-126), with
\* heap h, task t and executor trace x: step i is logged and handed to the
\* executor, the coroutine suspends in run_debug and gives up the loop
\* thread; when the steps are exhausted, line 132
Iterate(r, h, t, x, i) ==
    IF i <= Len(t.steps)
    THEN /\ heap' = log(h, r, Msg("Step", i, t.steps[i]))
         /\ tasks' = [tasks EXCEPT ![r] = [t EXCEPT !.i = i, !.pc = "await"]]
         /\ executor' = [x EXCEPT ![r] = Append(@, [op |-> "step", idx |-> i,
                                    text |-> t.steps[i], out |-> "", res |-> ""])]
         /\ cur' = 0
    ELSE /\ heap' = log(h, r, Msg("Completed", 0, ""))
         /\ tasks' = [tasks EXCEPT ![r] = [t EXCEPT !.i = i, !.pc = "set_completed"]]
         /\ executor' = x
         /\ cur' = r

\* run_steps, lines 117-120, and the first iteration of its loop
RunSteps(r) ==
    /\ cur = r
    /\ tasks[r].pc = "run_steps"
    /\ IF ~tasks[r].agent
       THEN /\ tasks' = [tasks EXCEPT ![r].pc = "setup_in_run_steps"]
            /\ UNCHANGED <<heap, executor, cur>>
       ELSE Iterate(r, log(heap, r, Msg("Starting", Len(tasks[r].steps), "")),
                    tasks[r], executor, 1)
    /\ UNCHANGED <<jobs, phase, exit_running, call, cancel_at, again>>

\* StepReturns, were the result of run_debug to win over a pending
\* cancellation: the task resumes normally although it was cancelled
StepReturns_IgnoresCancel(r) ==
    /\ cur = 0
    /\ tasks[r].pc = "await"
    /\ \E response \in Responses(tasks[r].steps[tasks[r].i]) :
        Iterate(r, log(heap, r, Msg("Result", 0, response)),
                [tasks[r] EXCEPT !.response = response],
                Outcome(r, "ok", response), tasks[r].i + 1)
    /\ call' = NoCall
    /\ UNCHANGED <<jobs, phase, exit_running, cancel_at, again>>

\* run_debug returns and the loop resumes the task at line 126: line 127,
\* and the next iteration
StepReturns(r) ==
    /\ cur = 0
    /\ tasks[r].pc = "await"
    /\ ~tasks[r].must_cancel
    /\ \E response \in Responses(tasks[r].steps[tasks[r].i]) :
        Iterate(r, log(heap, r, Msg("Result", 0, response)),
                [tasks[r] EXCEPT !.response = response],
                Outcome(r, "ok", response), tasks[r].i + 1)
    /\ call' = NoCall
    /\ UNCHANGED <<jobs, phase, exit_running, cancel_at, again>>

\* StepFails, without the `raise e` of line 130: the loop goes on
StepFails_NoRaise(r, cause) ==
    /\ cur = 0
    /\ tasks[r].pc = "await"
    /\ ~tasks[r].must_cancel
    /\ Iterate(r, log(heap, r, Msg("Error", tasks[r].i, cause)),
               [tasks[r] EXCEPT !.e = cause],
               Outcome(r, "err", cause), tasks[r].i + 1)
    /\ call' = NoCall
    /\ UNCHANGED <<jobs, phase, exit_running, cancel_at, again>>

\* run_debug raises an Exception and the loop resumes the task at line 126:
\* lines 128-130 log the error and raise it again, out of run_steps
StepFails(r, cause) ==
    /\ cur = 0
    /\ tasks[r].pc = "await"
    /\ ~tasks[r].must_cancel
    /\ heap' = log(heap, r, Msg("Error", tasks[r].i, cause))
    /\ tasks' = [tasks EXCEPT ![r].e = cause, ![r].pc = "except_exception"]
    /\ executor' = Outcome(r, "err", cause)
    /\ cur' = r
    /\ call' = NoCall
    /\ UNCHANGED <<jobs, phase, exit_running, cancel_at, again>>

\* the task was cancelled while suspended: the loop resumes it with a
\* CancelledError at line 126 (run_debug lets it through, and what it may have
\* returned meanwhile is dropped); `except Exception` (line 128) does not
\* catch it, `except asyncio.CancelledError` (line 162) does
StepCancelled(r) ==
    /\ cur = 0
    /\ tasks[r].pc = "await"
    /\ tasks[r].must_cancel
    /\ tasks' = [tasks EXCEPT ![r].must_cancel = FALSE, ![r].pc = "except_cancelled"]
    /\ executor' = Outcome(r, "cancelled", "")
    /\ cur' = r
    /\ call' = NoCall
    /\ UNCHANGED <<jobs, heap, phase, exit_running, cancel_at, again>>

\* line 161, after which the coroutine returns
SetCompleted(r) ==
    /\ cur = r
    /\ tasks[r].pc = "set_completed"
    /\ heap' = [heap EXCEPT ![r].status = "COMPLETED"]
    /\ tasks' = [tasks EXCEPT ![r].pc = "returned"]
    /\ cur' = 0
    /\ UNCHANGED <<jobs, phase, exit_running, call, cancel_at, again, executor>>

\* line 163
SetCancelled(r) ==
    /\ cur = r
    /\ tasks[r].pc = "except_cancelled"
    /\ heap' = [heap EXCEPT ![r].status = "CANCELLED"]
    /\ tasks' = [tasks EXCEPT ![r].pc = "log_cancelled"]
    /\ UNCHANGED <<jobs, cur, phase, exit_running, call, cancel_at, again, executor>>

\* LogCancelled, without the job_logger call of line 164
LogCancelled_NoLog(r) ==
    /\ cur = r
    /\ tasks[r].pc = "log_cancelled"
    /\ tasks' = [tasks EXCEPT ![r].pc = "returned"]
    /\ cur' = 0
    /\ UNCHANGED <<jobs, heap, phase, exit_running, call, cancel_at, again, executor>>

\* line 164, after which the coroutine returns
LogCancelled(r) ==
    /\ cur = r
    /\ tasks[r].pc = "log_cancelled"
    /\ heap' = job_logger(heap, r, Msg("Cancelled", 0, ""))
    /\ tasks' = [tasks EXCEPT ![r].pc = "returned"]
    /\ cur' = 0
    /\ UNCHANGED <<jobs, phase, exit_running, call, cancel_at, again, executor>>

\* line 166
SetFailed(r) ==
    /\ cur = r
    /\ tasks[r].pc = "except_exception"
    /\ heap' = [heap EXCEPT ![r].status = "FAILED"]
    /\ tasks' = [tasks EXCEPT ![r].pc = "log_critical"]
    /\ UNCHANGED <<jobs, cur, phase, exit_running, call, cancel_at, again, executor>>

\* LogCritical, without the job_logger call of line 167
LogCritical_NoLog(r) ==
    /\ cur = r
    /\ tasks[r].pc = "log_critical"
    /\ tasks' = [tasks EXCEPT ![r].pc = "returned"]
    /\ cur' = 0
    /\ UNCHANGED <<jobs, heap, phase, exit_running, call, cancel_at, again, executor>>

\* LogCritical, were the message of line 167 to leave out the cause
LogCritical_NoCause(r) ==
    /\ cur = r
    /\ tasks[r].pc = "log_critical"
    /\ heap' = job_logger(heap, r, Msg("Critical", 0, ""))
    /\ tasks' = [tasks EXCEPT ![r].pc = "returned"]
    /\ cur' = 0
    /\ UNCHANGED <<jobs, phase, exit_running, call, cancel_at, again, executor>>

\* line 167, after which the coroutine returns
LogCritical(r) ==
    /\ cur = r
    /\ tasks[r].pc = "log_critical"
    /\ heap' = job_logger(heap, r, Msg("Critical", 0, tasks[r].e))
    /\ tasks' = [tasks EXCEPT ![r].pc = "returned"]
    /\ cur' = 0
    /\ UNCHANGED <<jobs, phase, exit_running, call, cancel_at, again, executor>>

\* ---- cli_loop 'exit' and asyncio.run ----

Registered(r) == \E n \in 1..Len(jobs) : jobs[n].val = r

\* lines 214-220: every registered job whose status is RUNNING is cancelled
Exit ==
    /\ cur = 0
    /\ phase = "serving"
    /\ tasks' = [r \in 1..Len(tasks) |->
                    IF Registered(r) /\ heap[r].status = "RUNNING"
                    THEN cancel(tasks[r]) ELSE tasks[r]]
    /\ cancel_at' = [r \in 1..Len(tasks) |->
                    IF Registered(r) /\ heap[r].status = "RUNNING" /\ cancel_at[r] = ""
                    THEN heap[r].status ELSE cancel_at[r]]
    /\ phase' = "exited"
    /\ exit_running' = {r \in 1..Len(tasks) : heap[r].status = "RUNNING"}
    /\ call' = NoCall
    /\ UNCHANGED <<jobs, heap, cur, executor, again>>

\* line 296: when cli_loop has returned, asyncio.run cancels every task that
\* is not done and keeps the loop running until they are
Teardown ==
    /\ cur = 0
    /\ phase = "exited"
    /\ tasks' = [r \in 1..Len(tasks) |-> cancel(tasks[r])]
    /\ cancel_at' = [r \in 1..Len(tasks) |->
                    IF ~done(tasks[r]) /\ cancel_at[r] = ""
                    THEN heap[r].status ELSE cancel_at[r]]
    /\ phase' = "closing"
    /\ call' = NoCall
    /\ UNCHANGED <<jobs, heap, cur, executor, again, exit_running>>

Jobs == 1..Len(tasks)

\* uuid4() draws any id of the id space.  Ids are only ever compared for
\* equality, so the draws are taken up to renaming: an id drawn before, or
\* the least id not drawn so far
Draws == {id \in Ids : id <= Cardinality({heap[r].id : r \in Jobs}) + 1}

Next ==
    \/ \E job_id \in Draws, name \in Names, steps \in StepLists : create_job(job_id, name, steps)
    \/ \E job_id \in Ids : cancel_job(job_id)
    \/ Exit
    \/ Teardown
    \/ \E r \in Jobs : Start(r)
    \/ \E r \in Jobs : SetupOk(r)
    \/ \E r \in Jobs, cause \in SetupCauses : SetupFails(r, cause)
    \/ \E r \in Jobs : RunSteps(r)
    \/ \E r \in Jobs : StepReturns(r)
    \/ \E r \in Jobs, cause \in StepCauses : StepFails(r, cause)
    \/ \E r \in Jobs : StepCancelled(r)
    \/ \E r \in Jobs : SetCompleted(r)
    \/ \E r \in Jobs : SetCancelled(r)
    \/ \E r \in Jobs : LogCancelled(r)
    \/ \E r \in Jobs : SetFailed(r)
    \/ \E r \in Jobs : LogCritical(r)

Spec == Init /\ [][Next]_vars

SpecAgain == InitAgain /\ [][Next]_vars

TypeOK ==
    /\ Len(heap) <= MaxJobs
    /\ Len(tasks) = Len(heap)
    /\ cur \in 0..Len(heap)
    /\ phase \in {"serving", "exited", "closing"}
    /\ \A r \in 1..Len(heap) : heap[r].status \in Statuses

\* ---- properties ----

Edges == {<<"PENDING", "RUNNING">>, <<"RUNNING", "COMPLETED">>,
          <<"RUNNING", "FAILED">>, <<"RUNNING", "CANCELLED">>}
StepCalls(r) == SelectSeq(executor[r], LAMBDA c : c.op = "step")

\* C1: every change of a job's status follows one of the edges
\* PENDING->RUNNING, RUNNING->COMPLETED, RUNNING->FAILED, RUNNING->CANCELLED;
\* in particular no job leaves PENDING for a terminal status and no job
\* leaves a terminal status.
C1_StatusFollowsEdges ==
    [][\A r \in Jobs : heap'[r].status # heap[r].status
            => <<heap[r].status, heap'[r].status>> \in Edges]_vars

\* a job was cancelled while running and another one completed, with a
\* cancel_job call arriving after that
C1_Witness ==
    /\ \E r \in Jobs : heap[r].status = "CANCELLED" /\ cancel_at[r] = "RUNNING"
    /\ \E r \in Jobs : heap[r].status = "COMPLETED"
    /\ call.op = "cancel_job"

\* C2: a job cancelled while its status was still PENDING ends with status
\* CANCELLED, with at most one step handed to the executor.
C2_CancelBeforeStartCancels ==
    \A r \in Jobs : cancel_at[r] = "PENDING" /\ done(tasks[r])
        => heap[r].status = "CANCELLED" /\ Len(StepCalls(r)) <= 1

\* C3: every job is driven to a terminal status.  A task that is done is
\* never stepped again, so a job whose task is done has its final status.
C3_DoneTaskHasTerminalStatus ==
    \A r \in Jobs : done(tasks[r]) => heap[r].status \in Terminal

\* C4: cancel_job(id) returns true exactly when a job is registered under id
\* and its status is PENDING or RUNNING.
C4_CancelTrueIffNotTerminal ==
    call.op = "cancel_job"
        => (call.ok <=> (get_job(call.id) # 0
                          /\ heap[get_job(call.id)].status \notin Terminal))

\* C5: cancel_job on a job whose status is COMPLETED, FAILED or CANCELLED
\* returns false and changes no job, no task and not the registry.
C5_CancelTerminalIsNoOp ==
    [][\A job_id \in Ids :
         (/\ call'.op = "cancel_job"
          /\ call'.id = job_id
          /\ get_job(job_id) # 0
          /\ heap[get_job(job_id)].status \in Terminal)
         => ~call'.ok /\ heap' = heap /\ jobs' = jobs /\ tasks' = tasks]_vars

\* cancel_job has just been called on a job with a terminal status
C5_Witness ==
    /\ call.op = "cancel_job"
    /\ get_job(call.id) # 0
    /\ heap[get_job(call.id)].status \in Terminal
    /\ ~call.ok

\* C6: the ids handed out by create_job are pairwise distinct.
C6_IdsAreFresh ==
    \A r, q \in Jobs : r # q => heap[r].id # heap[q].id

\* C7: every job ever created is the one get_job returns for its id and
\* appears exactly once in list_jobs(), which holds as many jobs as
\* create_job was called.
C7_RegistryInsertOnly ==
    /\ Len(list_jobs) = Len(heap)
    /\ \A r \in Jobs :
        /\ get_job(heap[r].id) = r
        /\ Cardinality({n \in 1..Len(list_jobs) : list_jobs[n] = r}) = 1

Steps(r) == tasks[r].steps
Logs(r) == heap[r].logs
IsStepEntry(entry) == entry.kind \in {"Step", "Result"}
AboutSteps(entry) == entry.kind \in {"Step", "Result", "Error", "Completed"}

\* the entries a run of the first n steps leaves when they all succeed
Pairs(r, n) ==
    [m \in 1..(2 * n) |->
        IF m % 2 = 1
        THEN Format(Msg("Step", (m + 1) \div 2, Steps(r)[(m + 1) \div 2]))
        ELSE Format(Msg("Result", 0, StepCalls(r)[m \div 2].res))]

AllSucceeded(r) ==
    /\ Len(StepCalls(r)) = Len(Steps(r))
    /\ executor[r] # <<>>
    /\ \A n \in 1..Len(executor[r]) : executor[r][n].out = "ok"

\* C8: a job whose setup and N steps all succeed and that is never
\* cancelled ends COMPLETED, and its final log ends with Step 1, Result,
\* ..., Step N, Result, completion entry, with no other Step or Result entry
\* before them.
C8_SuccessLog ==
    \A r \in Jobs :
        (done(tasks[r]) /\ cancel_at[r] = "" /\ AllSucceeded(r))
        => LET want == Pairs(r, Len(Steps(r))) \o <<Format(Msg("Completed", 0, ""))>>
               lead == Len(Logs(r)) - Len(want)
           IN /\ heap[r].status = "COMPLETED"
              /\ lead >= 0
              /\ SubSeq(Logs(r), lead + 1, Len(Logs(r))) = want
              /\ \A n \in 1..lead : ~AboutSteps(Logs(r)[n])

\* a job of MaxSteps steps has completed
C8_Witness ==
    \E r \in Jobs :
        /\ done(tasks[r]) /\ cancel_at[r] = "" /\ AllSucceeded(r)
        /\ Len(Steps(r)) = MaxSteps
        /\ heap[r].status = "COMPLETED"

\* C9: when step k fails with an error that is no cancellation, the job
\* ends FAILED, k steps were handed to the executor and no more, and the
\* step entries of its final log are Step 1, Result, ..., Step k, Error on
\* step k with the cause.
C9_FailureLog ==
    \A r \in Jobs : \A k \in 1..Len(StepCalls(r)) :
        (done(tasks[r]) /\ StepCalls(r)[k].out = "err")
        => /\ heap[r].status = "FAILED"
           /\ Len(StepCalls(r)) = k
           /\ SelectSeq(Logs(r), AboutSteps)
                = Pairs(r, k - 1)
                  \o <<Format(Msg("Step", k, Steps(r)[k])),
                       Format(Msg("Error", k, StepCalls(r)[k].res))>>

\* a job has failed on a step that is neither its first nor its last one
C9_Witness ==
    \E r \in Jobs : \E k \in 1..Len(StepCalls(r)) :
        /\ done(tasks[r]) /\ StepCalls(r)[k].out = "err"
        /\ 1 < k /\ k < Len(Steps(r))

SetupFailed(r) == executor[r] # <<>> /\ executor[r][1].out = "err"

\* C10: when setup() fails, no step is ever handed to the executor and no
\* Step entry is ever logged; the runner task ends by returning, with
\* status FAILED and the Critical Failure entry with the cause as the last
\* log entry.
C10_SetupFailure ==
    \A r \in Jobs : SetupFailed(r)
        => /\ Len(executor[r]) = 1
           /\ \A n \in 1..Len(Logs(r)) : ~AboutSteps(Logs(r)[n])
           /\ done(tasks[r])
                => /\ tasks[r].pc = "returned"
                   /\ heap[r].status = "FAILED"
                   /\ Logs(r)[Len(Logs(r))] = Msg("Critical", 0, executor[r][1].res)

\* the runner of a job whose setup failed has finished
C10_Witness ==
    \E r \in Jobs : SetupFailed(r) /\ done(tasks[r]) /\ Len(Steps(r)) > 0

\* C11: a job whose task was asked to cancel (cancel_job returned True, or
\* the shutdown cancelled it) never has status COMPLETED; a COMPLETED job
\* has had its setup and all its steps succeed with no cancellation pending;
\* and the executor call that ended with the cancellation is the last call
\* of the job: no step is started after it.
C11_CancelledNeverCompletes ==
    \A r \in Jobs :
        /\ cancel_at[r] # "" => heap[r].status # "COMPLETED"
        /\ heap[r].status = "COMPLETED" => AllSucceeded(r) /\ ~tasks[r].must_cancel
        /\ \A k \in 1..Len(executor[r]) :
              executor[r][k].out = "cancelled" => k = Len(executor[r])

\* a job cancelled by cancel_job in the middle of its steps has ended
\* CANCELLED, with steps left that were never handed to the executor
C11_Witness ==
    \E r \in Jobs :
        /\ done(tasks[r]) /\ cancel_at[r] = "RUNNING" /\ phase = "serving"
        /\ heap[r].status = "CANCELLED"
        /\ 1 < Len(StepCalls(r)) /\ Len(StepCalls(r)) < Len(Steps(r))

\* C12: the 'exit' path cancels the task of every job whose status is
\* RUNNING at that moment and of no job in a terminal status; every job that
\* was RUNNING then ends with status CANCELLED; and a job that is terminal
\* keeps its status and its log from the shutdown on.
C12_ShutdownCancelsRunning ==
    [][/\ (phase = "serving" /\ phase' = "exited")
            => \A r \in Jobs :
                /\ heap[r].status = "RUNNING" => tasks'[r].must_cancel
                /\ heap[r].status \in Terminal => tasks'[r] = tasks[r]
       /\ phase' # "serving"
            => \A r \in Jobs :
                /\ (r \in exit_running' /\ done(tasks'[r]))
                      => heap'[r].status = "CANCELLED"
                /\ (heap[r].status \in Terminal /\ done(tasks[r]))
                      => heap'[r] = heap[r]]_vars

\* C13: for an id that create_job never returned, get_job returns None (0)
\* in every state, and a cancel_job call returns False and changes no job,
\* no task and not the registry.  (get_job is a read of the registry: it has
\* no effect on the state.)
C13_UnknownIdIsNoOp ==
    /\ [](\A job_id \in Ids :
            (\A r \in Jobs : heap[r].id # job_id) => get_job(job_id) = 0)
    /\ [][\A job_id \in Ids :
            (/\ \A r \in Jobs : heap[r].id # job_id
             /\ call'.op = "cancel_job"
             /\ call'.id = job_id)
            => ~call'.ok /\ heap' = heap /\ jobs' = jobs /\ tasks' = tasks]_vars

\* cancel_job was called with an id no job has, while a job was running
C13_Witness ==
    /\ call.op = "cancel_job" /\ ~call.ok
    /\ \A r \in Jobs : heap[r].id # call.id
    /\ get_job(call.id) = 0
    /\ \E r \in Jobs : heap[r].status = "RUNNING"

HasEntry(r, entry) == \E n \in 1..Len(Logs(r)) : Logs(r)[n] = entry

\* C14: in every reachable state in which a job's status is FAILED, its log
\* holds the entry that describes the error: the Critical Failure entry when
\* setup failed, the Error on step k entry when step k failed.
C14_ErrorLoggedBeforeFailed ==
    \A r \in Jobs : heap[r].status = "FAILED"
        => IF SetupFailed(r)
           THEN HasEntry(r, Msg("Critical", 0, tasks[r].e))
           ELSE HasEntry(r, Format(Msg("Error", Len(StepCalls(r)), tasks[r].e)))

\* C14, amended: when a step failed, the Error on step k entry is in the log
\* in every state in which the status is FAILED; the Critical Failure entry
\* is appended after the status is written, in the same resumption of the
\* task, so it is in the log of a FAILED job in every state in which the
\* runner of the job does not hold the loop thread.
C14_ErrorLoggedOnceRunnerYields ==
    \A r \in Jobs : heap[r].status = "FAILED"
        => /\ ~SetupFailed(r)
                => HasEntry(r, Format(Msg("Error", Len(StepCalls(r)), tasks[r].e)))
           /\ cur # r => HasEntry(r, Msg("Critical", 0, tasks[r].e))

\* the setup of a job failed and its runner has returned
C14_Witness ==
    \E r \in Jobs :
        /\ heap[r].status = "FAILED" /\ SetupFailed(r) /\ cur # r
        /\ Logs(r)[Len(Logs(r))] = Msg("Critical", 0, tasks[r].e)

Notice == Msg("Cancelled", 0, "")

\* C15: in every reachable state in which a job's status is CANCELLED, its
\* log holds the cancellation notice.
C15_NoticeLoggedBeforeCancelled ==
    \A r \in Jobs : heap[r].status = "CANCELLED" => HasEntry(r, Notice)

\* C15, amended: the notice is appended after the status is written, in the
\* same resumption of the task: a job whose status is CANCELLED either has
\* its runner between the two lines, holding the loop thread, or has the
\* notice as the last entry of its log.
C15_NoticeLoggedOnceRunnerYields ==
    \A r \in Jobs : heap[r].status = "CANCELLED"
        => \/ cur = r /\ tasks[r].pc = "log_cancelled" /\ ~HasEntry(r, Notice)
           \/ cur # r /\ Logs(r) # <<>> /\ Logs(r)[Len(Logs(r))] = Notice

\* a job cancelled while it waited for a step has ended; its log holds the
\* entries of the run and then the notice
C15_Witness ==
    \E r \in Jobs :
        /\ heap[r].status = "CANCELLED" /\ cur # r
        /\ Len(Logs(r)) > 1 /\ Logs(r)[Len(Logs(r))] = Notice

\* C16: when step k fails, the Error on step k entry is the last entry of
\* the job's final log: nothing is appended after it.
C16_ErrorEntryIsLast ==
    \A r \in Jobs : \A k \in 1..Len(StepCalls(r)) :
        (done(tasks[r]) /\ StepCalls(r)[k].out = "err")
        => Logs(r)[Len(Logs(r))] = Format(Msg("Error", k, StepCalls(r)[k].res))

\* C16, amended: when step k fails, the final log ends with the Step k
\* entry, the Error on step k entry and, after it, the Critical Failure
\* entry with the same cause; it holds one Error entry and no entry of a
\* later step.
C16_ErrorThenCriticalFailure ==
    \A r \in Jobs : \A k \in 1..Len(StepCalls(r)) :
        (done(tasks[r]) /\ StepCalls(r)[k].out = "err")
        => LET cause == StepCalls(r)[k].res
               n == Len(Logs(r))
           IN /\ n >= 3
              /\ SubSeq(Logs(r), n - 2, n)
                    = << Format(Msg("Step", k, Steps(r)[k])),
                         Format(Msg("Error", k, cause)),
                         Msg("Critical", 0, cause) >>
              /\ Len(SelectSeq(Logs(r), LAMBDA entry : entry.kind = "Error")) = 1
              /\ \A m \in 1..n : Logs(r)[m].kind = "Step" => Logs(r)[m].idx <= k

\* of three steps the second one failed
C16_Witness ==
    \E r \in Jobs :
        /\ done(tasks[r]) /\ Len(Steps(r)) = 3 /\ Len(StepCalls(r)) = 2
        /\ StepCalls(r)[2].out = "err"
        /\ Logs(r)[Len(Logs(r))].kind = "Critical"

\* C17: every step leaves each job's log as it was or adds entries at its
\* end: the log before the step is a prefix of the log after it.
C17_LogAppendOnly ==
    [][\A r \in Jobs :
         /\ Len(heap'[r].logs) >= Len(heap[r].logs)
         /\ SubSeq(heap'[r].logs, 1, Len(heap[r].logs)) = heap[r].logs]_vars

\* a job has run all its steps: its log grew by the setup entries, two
\* entries a step and the completion entry
C17_Witness ==
    \E r \in Jobs :
        /\ Len(Steps(r)) = MaxSteps
        /\ Len(Logs(r)) = 2 * MaxSteps + 4
        /\ Logs(r)[Len(Logs(r))].kind = "Completed"

\* the step is one of the runner of job r: its coroutine moved (the one
\* field of a task that others write is must_cancel)
RunnerStep(r) ==
    [tasks'[r] EXCEPT !.must_cancel = FALSE] # [tasks[r] EXCEPT !.must_cancel = FALSE]

\* C18: a step of the runner of job r changes, of all jobs, only the status
\* and the log of r: every other job and task, the id and name of r and the
\* registry are as before, and no job is created.
C18_RunnerWritesOwnJobOnly ==
    [][\A r \in Jobs : RunnerStep(r)
         => /\ \A q \in Jobs \ {r} : heap'[q] = heap[q] /\ tasks'[q] = tasks[q]
            /\ heap'[r].id = heap[r].id /\ heap'[r].name = heap[r].name
            /\ Len(heap') = Len(heap)
            /\ jobs' = jobs]_vars

\* two jobs are running at once, each suspended in a step of its own
C18_Witness ==
    \E r, q \in Jobs :
        /\ r # q
        /\ heap[r].status = "RUNNING" /\ heap[q].status = "RUNNING"
        /\ tasks[r].pc = "await" /\ tasks[q].pc = "await"
        /\ tasks[r].i > tasks[q].i

SetupCalls(r) == SelectSeq(executor[r], LAMBDA c : c.op = "setup")

\* C19: a job whose status is PENDING has an empty log and has made no call
\* of setup or of the executor; setup is called at most once per job, as
\* the first call, and has succeeded before any step is handed over; and
\* in every log the two setup entries come first, before any Step entry.
C19_RunningThenSetupThenSteps ==
    \A r \in Jobs :
        /\ heap[r].status = "PENDING" => Logs(r) = <<>> /\ executor[r] = <<>>
        /\ Len(SetupCalls(r)) <= 1
        /\ executor[r] # <<>> => executor[r][1].op = "setup"
        /\ StepCalls(r) # <<>> => executor[r][1].out = "ok"
        /\ Len(SelectSeq(Logs(r), LAMBDA entry : entry.kind = "Initializing")) <= 1
        /\ \A n \in 1..Len(Logs(r)) : Logs(r)[n].kind = "Step"
              => /\ n > 2
                 /\ Logs(r)[1] = Format(Msg("Initializing", 0, ""))
                 /\ Logs(r)[2] = Format(Msg("SetupComplete", 0, ""))

\* one job has logged its first step after its setup while another job
\* is still PENDING
C19_Witness ==
    \E r, q \in Jobs :
        /\ heap[r].status = "PENDING" /\ tasks[r].pc = "created"
        /\ Len(Logs(q)) >= 4 /\ Logs(q)[4].kind = "Step" /\ Logs(q)[4].idx = 1
        /\ Len(SetupCalls(q)) = 1

Notices(r) == SelectSeq(Logs(r), LAMBDA entry : entry = Notice)

\* C20: a job for which cancel_job returned True again while an earlier
\* cancellation of it was still pending never has more than one cancellation
\* notice in its log, and once its task is done its status is CANCELLED and
\* the one notice is the last entry of its log.
C20_RepeatedCancelOneNotice ==
    \A r \in again.of :
        /\ Len(Notices(r)) <= 1
        /\ done(tasks[r])
              => /\ heap[r].status = "CANCELLED"
                 /\ Len(Notices(r)) = 1
                 /\ Logs(r)[Len(Logs(r))] = Notice

====
